---- MODULE Spec2Model ----
(***************************************************************************)
(* A model of mib.bq (src/mib/bq/_writer.py): the buffered batch writer    *)
(* BQBatchWriter / BQBatchWriterStream on top of a recording transport,    *)
(* the constructor BQBatchWriter.__init__, the schema compiler             *)
(* build_desriptor_proto and the row filler build_struct_filler.           *)
(***************************************************************************)
EXTENDS Integers, Sequences, FiniteSets, TLC

(***************************************************************************)
(* Bounds of the model and program constants.                              *)
(***************************************************************************)
\* the flush threshold of BQBatchWriterStream.append, in bytes
Threshold == 9000000
\* API calls made on one writer in one run
MaxCalls == 3
\* rows appended over one run
MaxRows == 2
\* rows passed to one append call
MaxArgs == 2

\* serialized row lengths: half the threshold, and one byte more than the
\* threshold
RowSizes == {4500000, 9000001}
\* the offsets a caller passes to open
OpenOffsets == {0, 1}
\* the handles one writer opens
HandleIds == {1, 2}
\* columns of a table schema, over all nesting levels
MaxNodes == 3
\* the column names of a level, by position, and what str.title() makes of them
ColNames == <<"first", "sub", "awards", "nest", "day">>
Title(name) ==
    CASE name = "first" -> "First" [] name = "sub" -> "Sub" [] name = "awards" -> "Awards"
      [] name = "nest" -> "Nest" [] name = "day" -> "Day"
\* columns of the schema of a row that is filled, over all nesting levels
MaxFillNodes == 2
\* the lengths of the repeated values of a source record
Lengths == {0, 1, 2}
\* characters of a table identifier
MaxIdLen == 5
\* the type tags and modes of the columns
ScalarTypes == {"STRING", "INT64"}
RecordTypes == {"RECORD"}
Modes == {"NULLABLE", "REPEATED", "REQUIRED"}

VARIABLES
    handles,   \* the BQBatchWriterStream objects created so far, by handle id
    streams,   \* BQBatchWriter.streams: handle ids, in open order
    calls,     \* what the transport and the write client were asked, in order
    nrows,     \* rows the caller appended so far (gives each row its identity)
    ncalls,    \* API calls made so far
    last,      \* the last API call: operation, handle, return value, error raised
    given      \* what the caller saw of each handle: the rows its appends took
               \* and the sum of the values its appends returned

wvars == <<handles, streams, calls, nrows, ncalls, last, given>>

VARIABLES
    schema,    \* the table schema: a sequence of SchemaField
    desc,      \* the DescriptorProto built from it, or NoDesc
    record,    \* a source record of that schema
    filled     \* what the filler made of it, or NotFilled

pvars == <<schema, desc, record, filled>>

VARIABLES
    args,      \* the arguments BQBatchWriter was constructed with
    built      \* what __init__ did with them, or NotBuilt

cvars == <<args, built>>

(***************************************************************************)
(* The collaborators record every request.  One record shape for all:      *)
(*   open     writer.AppendRowsStream(wc, template) for handle h, which    *)
(*            starts at offset; ws is template.write_stream                 *)
(*   send     stream.send(request) of handle h: offset, rows, future fid   *)
(*   result   f.result() of future fid of handle h; ok: it did not raise   *)
(*   close    stream.close() of handle h                                   *)
(*   finalize wc.finalize_write_stream(name=ws); ok: it did not raise      *)
(*   commit   wc.batch_commit_write_streams with write_streams = [ws];     *)
(*            ok: it did not raise                                         *)
(***************************************************************************)
Ev(ev, h, ws, offset, rows, fid, ok) ==
    [ev |-> ev, h |-> h, ws |-> ws, offset |-> offset, rows |-> rows, fid |-> fid,
     ok |-> ok]

\* BQBatchWriter.write_stream: the name create_write_stream returned
WriteStream == "streams/1"

\* the result of an API call
Call(op, h, ret, err, fid) ==
    [op |-> op, h |-> h, ret |-> ret, err |-> err, fid |-> fid]

\* futures handed out so far: one per request sent
NumFutures(log) == Cardinality({i \in 1..Len(log) : log[i].ev = "send"})

\* BQBatchWriterStream.__init__
NewStream(offset) ==
    [rows |-> <<>>, offset |-> offset, size |-> 0, total_size |-> 0, futures |-> <<>>]

\* submit as it would be without the line self.offset += number_of_rows
submit_keep_offset(h, hd, log) ==
    LET number_of_rows == Len(hd.rows) IN
    IF number_of_rows > 0
    THEN LET fid == NumFutures(log) + 1 IN
         [hd  |-> [hd EXCEPT !.futures = Append(@, fid),
                             !.rows = <<>>,
                             !.total_size = @ + hd.size,
                             !.size = 0],
          log |-> Append(log, Ev("send", h, WriteStream, hd.offset, hd.rows, fid, TRUE))]
    ELSE [hd |-> hd, log |-> log]

\* submit as it would be without the line self.rows = types.ProtoRows()
submit_keep_rows(h, hd, log) ==
    LET number_of_rows == Len(hd.rows) IN
    IF number_of_rows > 0
    THEN LET fid == NumFutures(log) + 1 IN
         [hd  |-> [hd EXCEPT !.futures = Append(@, fid),
                             !.offset = @ + number_of_rows,
                             !.total_size = @ + hd.size,
                             !.size = 0],
          log |-> Append(log, Ev("send", h, WriteStream, hd.offset, hd.rows, fid, TRUE))]
    ELSE [hd |-> hd, log |-> log]

\* BQBatchWriterStream.submit on handle h with object state hd
submit(h, hd, log) ==
    LET number_of_rows == Len(hd.rows) IN
    IF number_of_rows > 0
    THEN LET fid == NumFutures(log) + 1 IN
         [hd  |-> [hd EXCEPT !.futures = Append(@, fid),
                             !.offset = @ + number_of_rows,
                             !.rows = <<>>,
                             !.total_size = @ + hd.size,
                             !.size = 0],
          log |-> Append(log, Ev("send", h, WriteStream, hd.offset, hd.rows, fid, TRUE))]
    ELSE [hd |-> hd, log |-> log]

\* a row passed to append: the length it serializes to, and whether
\* self.actions(dst, src) fills it (ok) or raises
Src(size, ok) == [size |-> size, ok |-> ok]
Srcs == {Src(size, TRUE) : size \in RowSizes} \cup {Src(0, FALSE)}

\* the loop of append as it would be with >= for > in the threshold test
RECURSIVE append_loop_at_threshold(_, _, _, _, _, _)
append_loop_at_threshold(h, hd, log, srcs, i, n) ==
    IF i > Len(srcs) THEN [hd |-> hd, log |-> log, err |-> FALSE, taken |-> Len(srcs)]
    ELSE IF ~srcs[i].ok THEN [hd |-> hd, log |-> log, err |-> TRUE, taken |-> i - 1]
    ELSE LET size == srcs[i].size
             hd1  == [hd EXCEPT !.rows = Append(@, [id |-> n + i, size |-> size]),
                                !.size = @ + size]
             s    == IF hd1.size >= Threshold
                     THEN submit(h, hd1, log)
                     ELSE [hd |-> hd1, log |-> log]
         IN append_loop_at_threshold(h, s.hd, s.log, srcs, i + 1, n)

\* the loop of append as it would be if the row were put into the buffer
\* before it is filled
RECURSIVE append_loop_buffers_first(_, _, _, _, _, _)
append_loop_buffers_first(h, hd, log, srcs, i, n) ==
    IF i > Len(srcs) THEN [hd |-> hd, log |-> log, err |-> FALSE, taken |-> Len(srcs)]
    ELSE IF ~srcs[i].ok
    THEN [hd |-> [hd EXCEPT !.rows = Append(@, [id |-> n + i, size |-> 0])], log |-> log,
          err |-> TRUE, taken |-> i - 1]
    ELSE LET size == srcs[i].size
             hd1  == [hd EXCEPT !.rows = Append(@, [id |-> n + i, size |-> size]),
                                !.size = @ + size]
             s    == IF hd1.size > Threshold
                     THEN submit(h, hd1, log)
                     ELSE [hd |-> hd1, log |-> log]
         IN append_loop_buffers_first(h, s.hd, s.log, srcs, i + 1, n)

\* the loop of BQBatchWriterStream.append over args[i..]: n is the number of
\* rows appended before the call; a row that self.actions raises on ends the
\* call (err) before anything of it is kept; taken is the number of rows the
\* call put into the buffer
RECURSIVE append_loop(_, _, _, _, _, _)
append_loop(h, hd, log, srcs, i, n) ==
    IF i > Len(srcs) THEN [hd |-> hd, log |-> log, err |-> FALSE, taken |-> Len(srcs)]
    ELSE IF ~srcs[i].ok THEN [hd |-> hd, log |-> log, err |-> TRUE, taken |-> i - 1]
    ELSE LET size == srcs[i].size
             hd1  == [hd EXCEPT !.rows = Append(@, [id |-> n + i, size |-> size]),
                                !.size = @ + size]
             s    == IF hd1.size > Threshold
                     THEN submit(h, hd1, log)
                     ELSE [hd |-> hd1, log |-> log]
         IN append_loop(h, s.hd, s.log, srcs, i + 1, n)

RECURSIVE SumSeq(_)
SumSeq(s) == IF s = <<>> THEN 0 ELSE Head(s) + SumSeq(Tail(s))

\* what f.result() of future fid does: a future that was awaited before
\* resolves the same way again, another one as the transport decides (fates)
Resolve(fid, log, fates) ==
    IF \E i \in 1..Len(log) : log[i].ev = "result" /\ log[i].fid = fid
    THEN LET i == CHOOSE i \in 1..Len(log) : log[i].ev = "result" /\ log[i].fid = fid
         IN log[i].ok
    ELSE fates[fid]

\* the loop of close as it would be if it awaited nothing
await_nothing(h, futs, log, fates) == [log |-> log, err |-> 0]

\* the loop of BQBatchWriterStream.close: f.result() for the futures of the
\* handle, in list order, up to the first one that raises
RECURSIVE await(_, _, _, _)
await(h, futs, log, fates) ==
    IF futs = <<>> THEN [log |-> log, err |-> 0]
    ELSE LET fid  == Head(futs)
             ok   == Resolve(fid, log, fates)
             log1 == Append(log, Ev("result", h, "", 0, <<>>, fid, ok))
         IN IF ok THEN await(h, Tail(futs), log1, fates)
            ELSE [log |-> log1, err |-> fid]

\* close as it would be without its first line, self.submit()
close_without_submit(h, hd, log, fates) ==
    LET a == await(h, hd.futures, log, fates)
    IN IF a.err # 0
       THEN [hd |-> hd, log |-> a.log, err |-> a.err, ret |-> 0]
       ELSE [hd |-> hd, log |-> Append(a.log, Ev("close", h, "", 0, <<>>, 0, TRUE)),
             err |-> 0, ret |-> hd.total_size]

\* BQBatchWriterStream.close: err is the future whose result() raised, or 0
close(h, hd, log, fates) ==
    LET s == submit(h, hd, log)
        a == await(h, s.hd.futures, s.log, fates)
    IN IF a.err # 0
       THEN [hd |-> s.hd, log |-> a.log, err |-> a.err, ret |-> 0]
       ELSE [hd |-> s.hd, log |-> Append(a.log, Ev("close", h, "", 0, <<>>, 0, TRUE)),
             err |-> 0, ret |-> s.hd.total_size]

\* the loop of BQBatchWriter.commit over self.streams[i..]
RECURSIVE close_all(_, _, _, _, _)
close_all(ss, hs, log, fates, i) ==
    IF i > Len(ss) THEN [hs |-> hs, log |-> log, err |-> 0]
    ELSE LET h == ss[i]
             c == close(h, hs[h], log, fates)
             hs1 == [hs EXCEPT ![h] = c.hd]
         IN IF c.err # 0 THEN [hs |-> hs1, log |-> c.log, err |-> c.err]
            ELSE close_all(ss, hs1, c.log, fates, i + 1)

\* commit as it would be if a failure of finalize were caught and ignored
commit_after_failed_finalize(ss, hs, log, fates, fin, com) ==
    IF Len(ss) > 0
    THEN LET r == close_all(ss, hs, log, fates, 1)
             f == Append(r.log, Ev("finalize", 0, WriteStream, 0, <<>>, 0, fin))
             c == Append(f, Ev("commit", 0, WriteStream, 0, <<>>, 0, com))
         IN IF r.err # 0
            THEN [ss |-> ss, hs |-> r.hs, log |-> r.log, err |-> "send", fid |-> r.err]
            ELSE [ss |-> <<>>, hs |-> r.hs, log |-> c,
                  err |-> IF com THEN "none" ELSE "commit", fid |-> 0]
    ELSE [ss |-> ss, hs |-> hs, log |-> log, err |-> "none", fid |-> 0]

\* BQBatchWriter.commit: fin and com say whether the finalize and the commit
\* request succeed
commit(ss, hs, log, fates, fin, com) ==
    IF Len(ss) > 0
    THEN LET r == close_all(ss, hs, log, fates, 1)
             f == Append(r.log, Ev("finalize", 0, WriteStream, 0, <<>>, 0, fin))
             c == Append(f, Ev("commit", 0, WriteStream, 0, <<>>, 0, com))
         IN IF r.err # 0
            THEN [ss |-> ss, hs |-> r.hs, log |-> r.log, err |-> "send", fid |-> r.err]
            ELSE IF ~fin
            THEN [ss |-> <<>>, hs |-> r.hs, log |-> f, err |-> "finalize", fid |-> 0]
            ELSE [ss |-> <<>>, hs |-> r.hs, log |-> c,
                  err |-> IF com THEN "none" ELSE "commit", fid |-> 0]
    ELSE [ss |-> ss, hs |-> hs, log |-> log, err |-> "none", fid |-> 0]

(***************************************************************************)
(* BQBatchWriter.__init__.  A table identifier is a string over a letter   *)
(* and the dot; the external collaborators are recorded by name.           *)
(***************************************************************************)
Chars == {"a", "."}
TableIds == UNION {[1..n -> Chars] : n \in 0..MaxIdLen}

\* table_id.split(sep): the parts between the separators, empty ones included
RECURSIVE split(_, _)
split(str, sep) ==
    IF str = <<>> THEN << <<>> >>
    ELSE LET r == split(Tail(str), sep) IN
         IF Head(str) = sep THEN << <<>> >> \o r
         ELSE << <<Head(str)>> \o r[1] >> \o Tail(r)

\* the arguments of __init__: bqc and wc say whether a client was passed,
\* write_stream is "" for None
CtorArgs ==
    [table_id : TableIds, bqc : BOOLEAN, wc : BOOLEAN, write_stream : {"", "streams/7"}]

\* the result of __init__: the collaborators it called, in order, the error
\* it raised, and self.write_stream
Built(log, err, write_stream) == [log |-> log, err |-> err, write_stream |-> write_stream]
NotBuilt == Built(<<>>, "not called", "")

\* BQBatchWriter.__init__(table_id, write_stream=, bqc=, wc=): auth_ok,
\* create_ok and table_ok say whether auth.default, create_write_stream and
\* get_table succeed
BQBatchWriter_init(a, auth_ok, create_ok, table_ok) ==
    LET creds == IF ~a.bqc \/ ~a.wc THEN <<"auth.default">> ELSE <<>>
        clients == creds \o (IF ~a.bqc THEN <<"bigquery.Client">> ELSE <<>>)
                         \o (IF ~a.wc THEN <<"BigQueryWriteClient">> ELSE <<>>)
        s == split(a.table_id, ".")
        created == IF a.write_stream = "" THEN Append(clients, "create_write_stream")
                   ELSE clients
        name == IF a.write_stream = "" THEN WriteStream ELSE a.write_stream
    IN IF creds # <<>> /\ ~auth_ok THEN Built(creds, "DefaultCredentialsError", "")
       ELSE IF Len(s) # 3 THEN Built(clients, "ValueError", "")
       ELSE IF a.write_stream = "" /\ ~create_ok THEN Built(created, "create_write_stream", "")
       ELSE IF ~table_ok THEN Built(Append(created, "get_table"), "get_table", name)
       ELSE Built(Append(created, "get_table"), "none", name)

\* write_single_batch: BQBatchWriter(table_id=table_id)
DefaultArgs ==
    [table_id |-> <<"a", ".", "a", ".", "a">>, bqc |-> FALSE, wc |-> FALSE,
     write_stream |-> ""]

\* the writer of Init: constructed with a qualified table identifier
CBuilt == args = DefaultArgs /\ built = BQBatchWriter_init(DefaultArgs, TRUE, TRUE, TRUE)

(***************************************************************************)
(* The writer: Init is the state after BQBatchWriter.__init__.             *)
(***************************************************************************)
WInit ==
    /\ handles = <<>>
    /\ streams = <<>>
    /\ calls = <<>>
    /\ nrows = 0
    /\ ncalls = 0
    /\ last = Call("init", 0, 0, "none", 0)
    /\ given = <<>>

\* the futures a close of the handles hset may await for the first time:
\* those retained and never awaited, and those of the requests the close sends
Pending(hset) ==
    LET old == {fid \in 1..NumFutures(calls) :
                  /\ \E h \in hset : \E j \in 1..Len(handles[h].futures) :
                        handles[h].futures[j] = fid
                  /\ ~\E i \in 1..Len(calls) :
                        calls[i].ev = "result" /\ calls[i].fid = fid}
        new == Cardinality({h \in hset : Len(handles[h].rows) > 0})
    IN old \cup (NumFutures(calls) + 1 .. NumFutures(calls) + new)

\* the fates the transport can give the futures of hset
Fates(hset) == [Pending(hset) -> BOOLEAN]

\* BQBatchWriter.open(offset)
Open ==
    /\ Len(handles) + 1 \in HandleIds
    /\ \E offset \in OpenOffsets :
         /\ handles' = Append(handles, NewStream(offset))
         /\ streams' = Append(streams, Len(handles) + 1)
         /\ calls' = Append(calls, Ev("open", Len(handles) + 1, WriteStream, offset,
                                      <<>>, 0, TRUE))
         /\ last' = Call("open", Len(handles) + 1, 0, "none", 0)
    /\ given' = Append(given, [rows |-> <<>>, returned |-> 0])
    /\ UNCHANGED <<nrows, ncalls, pvars, cvars>>

\* BQBatchWriterStream.append(*args) on handle h: returns total, or raises
\* what self.actions raised.  The loop reads no row after one that raises,
\* so the row that raises is taken to be the last one passed.
AppendRows ==
    /\ ncalls < MaxCalls
    /\ \E h \in 1..Len(handles), k \in 0..MaxArgs :
         /\ nrows + k <= MaxRows
         /\ \E srcs \in [1..k -> Srcs] :
              /\ \A i \in 1..(k - 1) : srcs[i].ok
              /\ LET r == append_loop(h, handles[h], calls, srcs, 1, nrows)
                     total == SumSeq([i \in 1..r.taken |-> srcs[i].size])
                 IN
                 /\ handles' = [handles EXCEPT ![h] = r.hd]
                 /\ calls' = r.log
                 /\ nrows' = nrows + r.taken
                 /\ last' = IF r.err THEN Call("append", h, 0, "convert", 0)
                            ELSE Call("append", h, total, "none", 0)
                 /\ given' = [given EXCEPT ![h] =
                                [rows |-> @.rows \o [i \in 1..r.taken |->
                                             [id |-> nrows + i, size |-> srcs[i].size]],
                                 returned |-> @.returned + (IF r.err THEN 0 ELSE total)]]
    /\ ncalls' = ncalls + 1
    /\ UNCHANGED <<streams, pvars, cvars>>

\* BQBatchWriterStream.submit() on handle h
Submit ==
    /\ ncalls < MaxCalls
    /\ \E h \in 1..Len(handles) :
         LET r == submit(h, handles[h], calls) IN
         /\ handles' = [handles EXCEPT ![h] = r.hd]
         /\ calls' = r.log
         /\ last' = Call("submit", h, 0, "none", 0)
    /\ ncalls' = ncalls + 1
    /\ UNCHANGED <<streams, nrows, given, pvars, cvars>>

\* BQBatchWriterStream.close() on handle h, called by the owner of the handle
Close ==
    /\ ncalls < MaxCalls
    /\ \E h \in 1..Len(handles) : \E fates \in Fates({h}) :
         LET r == close(h, handles[h], calls, fates) IN
         /\ handles' = [handles EXCEPT ![h] = r.hd]
         /\ calls' = r.log
         /\ last' = Call("close", h, r.ret, IF r.err # 0 THEN "send" ELSE "none", r.err)
    /\ ncalls' = ncalls + 1
    /\ UNCHANGED <<streams, nrows, given, pvars, cvars>>

\* BQBatchWriter.commit(), also what __exit__ runs
Commit ==
    /\ ncalls < MaxCalls
    /\ \E fates \in Fates({streams[i] : i \in 1..Len(streams)}), fin \in BOOLEAN, com \in BOOLEAN :
         LET r == commit(streams, handles, calls, fates, fin, com) IN
         /\ handles' = r.hs
         /\ streams' = r.ss
         /\ calls' = r.log
         /\ last' = Call("commit", 0, 0, r.err, r.fid)
    /\ ncalls' = ncalls + 1
    /\ UNCHANGED <<nrows, given, pvars, cvars>>

\* BQBatchWriter.__exit__(type, value, traceback) when what an append raised
\* leaves the with-block: commit, then the error goes on to the caller
Exit ==
    /\ ncalls < MaxCalls
    /\ last.op = "append"
    /\ last.err = "convert"
    /\ \E fates \in Fates({streams[i] : i \in 1..Len(streams)}), fin \in BOOLEAN, com \in BOOLEAN :
         LET r == commit(streams, handles, calls, fates, fin, com) IN
         /\ handles' = r.hs
         /\ streams' = r.ss
         /\ calls' = r.log
         /\ last' = Call("exit", 0, 0, r.err, r.fid)
    /\ ncalls' = ncalls + 1
    /\ UNCHANGED <<nrows, given, pvars, cvars>>

Next == Open \/ AppendRows \/ Submit \/ Close \/ Commit \/ Exit

vars == <<wvars, pvars, cvars>>

(***************************************************************************)
(* build_desriptor_proto.                                                  *)
(***************************************************************************)
\* bigquery.SchemaField
SchemaField(name, field_type, mode, fields) ==
    [name |-> name, field_type |-> field_type, mode |-> mode, fields |-> fields]

\* create_mapping(): type tag to wire type
Mapping ==
    [STRING |-> "TYPE_STRING", BYTES |-> "TYPE_BYTES", INTEGER |-> "TYPE_INT64",
     INT64 |-> "TYPE_INT64", FLOAT |-> "TYPE_DOUBLE", FLOAT64 |-> "TYPE_DOUBLE",
     BOOLEAN |-> "TYPE_BOOL", BOOL |-> "TYPE_BOOL", RECORD |-> "TYPE_MESSAGE",
     TIME |-> "TYPE_STRING", DATETIME |-> "TYPE_STRING", DATE |-> "TYPE_INT32",
     GEOGRAPHY |-> "TYPE_STRING", JSON |-> "TYPE_STRING", TIMESTAMP |-> "TYPE_INT64",
     NUMERIC |-> "TYPE_STRING", BIGNUMERIC |-> "TYPE_STRING"]

\* mapping.get(field_type, TYPE_STRING)
WireType(field_type) ==
    IF field_type \in DOMAIN Mapping THEN Mapping[field_type] ELSE "TYPE_STRING"

\* the label of a mode
Label(mode) ==
    IF mode = "NULLABLE" THEN "LABEL_OPTIONAL"
    ELSE IF mode = "REPEATED" THEN "LABEL_REPEATED"
    ELSE "LABEL_REQUIRED"

IsRecord(field) == field.field_type = "RECORD" \/ field.field_type = "STRUCT"

\* build_desriptor_proto as it would be with enumerate(fields) for
\* enumerate(fields, 1)
RECURSIVE build_desriptor_proto_from_zero(_, _)
build_desriptor_proto_from_zero(fields, name) ==
    LET type_name(f) == "MIB" \o name \o Title(f.name)
        records == SelectSeq(fields, IsRecord)
    IN [name |-> name,
        field |-> [number \in 1..Len(fields) |->
                     LET f == fields[number] IN
                     [name |-> f.name, number |-> number - 1,
                      type |-> WireType(f.field_type),
                      type_name |-> IF IsRecord(f) THEN type_name(f) ELSE "",
                      label |-> Label(f.mode)]],
        nested_type |-> [k \in 1..Len(records) |->
                           build_desriptor_proto_from_zero(records[k].fields,
                                                           type_name(records[k]))]]

\* build_desriptor_proto(fields, name): the loop adds one field per column,
\* numbered by enumerate(fields, 1), and one nested type per record column
RECURSIVE build_desriptor_proto(_, _)
build_desriptor_proto(fields, name) ==
    LET type_name(f) == "MIB" \o name \o Title(f.name)
        records == SelectSeq(fields, IsRecord)
    IN [name |-> name,
        field |-> [number \in 1..Len(fields) |->
                     LET f == fields[number] IN
                     [name |-> f.name, number |-> number, type |-> WireType(f.field_type),
                      type_name |-> IF IsRecord(f) THEN type_name(f) ELSE "",
                      label |-> Label(f.mode)]],
        nested_type |-> [k \in 1..Len(records) |->
                           build_desriptor_proto(records[k].fields, type_name(records[k]))]]

\* no descriptor built yet
NoDesc == [name |-> "", field |-> <<>>, nested_type |-> <<>>]

\* the schemas of n columns in all, the columns of a level named by position
RECURSIVE Forests(_, _), Trees(_, _)
Forests(n, pos) ==
    IF n = 0 THEN {<<>>}
    ELSE UNION {{<<t>> \o f : t \in Trees(k, pos), f \in Forests(n - k, pos + 1)} : k \in 1..n}
Trees(k, pos) ==
    (IF k = 1
     THEN {SchemaField(ColNames[pos], t, m, <<>>) : t \in ScalarTypes, m \in Modes}
     ELSE {})
    \cup {SchemaField(ColNames[pos], t, m, f) :
             t \in RecordTypes, m \in Modes, f \in Forests(k - 1, 1)}

Schemas(n) == UNION {Forests(k, 1) : k \in 0..n}

(***************************************************************************)
(* build_struct_filler.  Values of source records and of messages, in one  *)
(* shape: None, an int, a str, a list, a dict (its values ordered as the   *)
(* columns of its level), and for a message field: unset, or its value     *)
(* (a sub-message is the sequence of its fields).                          *)
(***************************************************************************)
Val(kind, i, s, items) == [kind |-> kind, i |-> i, s |-> s, items |-> items]
VNone == Val("none", 0, "", <<>>)
VUnset == Val("unset", 0, "", <<>>)
VInt(n) == Val("int", n, "", <<>>)
VStr(s) == Val("str", 0, s, <<>>)
VList(items) == Val("list", 0, "", items)
VDict(items) == Val("dict", 0, "", items)
VMsg(items) == Val("msg", 0, "", items)

\* the result of a call that may raise
Ok(v) == [ok |-> TRUE, v |-> v]
Raised == [ok |-> FALSE, v |-> VNone]

\* str(v) and int(v) on the scalars of the source records
PyStr(v) ==
    CASE v.kind = "str" -> Ok(v)
      [] v.kind = "int" -> Ok(VStr(ToString(v.i)))
      [] v.kind = "none" -> Ok(VStr("None"))
      [] OTHER -> Raised
PyInt(v) ==
    CASE v.kind = "int" -> Ok(v)
      [] v.kind = "str" ->
            IF \E n \in 0..9 : ToString(n) = v.s
            THEN Ok(VInt(CHOOSE n \in 0..9 : ToString(n) = v.s))
            ELSE Raised
      [] OTHER -> Raised

\* converter.get(field_type, lambda v: v)(v) with create_converter()
Convert(field_type, v) ==
    CASE field_type \in {"STRING", "JSON", "GEOGRAPHY"} -> PyStr(v)
      [] field_type \in {"INTEGER", "INT64"} -> PyInt(v)
      [] OTHER -> Ok(v)

\* whether a message field of the wire type of field_type takes value v
Accepts(field_type, v) ==
    CASE WireType(field_type) = "TYPE_STRING" -> v.kind = "str"
      [] WireType(field_type) = "TYPE_INT64" -> v.kind = "int"
      [] OTHER -> FALSE

\* c(v), checked as setattr and extend check it against the field; trace
\* records the converter calls
Converted(f, path, v, trace) ==
    LET c == Convert(f.field_type, v)
        t == Append(trace, [path |-> path \o "." \o f.name, v |-> v])
    IN [v |-> c.v, trace |-> t, err |-> ~c.ok \/ ~Accepts(f.field_type, c.v)]

\* self.clazz(), d.add(), getattr(dst, name): a message with no field set
NewMessage(fields) ==
    [i \in 1..Len(fields) |-> IF fields[i].mode = "REPEATED" THEN VList(<<>>) ELSE VUnset]

\* [c(r) for r in v] as it would be if every result were put in front of the
\* results before it
RECURSIVE convert_each_last_first(_, _, _, _, _, _)
convert_each_last_first(f, path, vs, k, out, trace) ==
    IF k > Len(vs) THEN [v |-> out, trace |-> trace, err |-> FALSE]
    ELSE LET c == Converted(f, path, vs[k], trace) IN
         IF c.err THEN [v |-> out, trace |-> c.trace, err |-> TRUE]
         ELSE convert_each_last_first(f, path, vs, k + 1, <<c.v>> \o out, c.trace)

\* [c(r) for r in v]
RECURSIVE convert_each(_, _, _, _, _, _)
convert_each(f, path, vs, k, out, trace) ==
    IF k > Len(vs) THEN [v |-> out, trace |-> trace, err |-> FALSE]
    ELSE LET c == Converted(f, path, vs[k], trace) IN
         IF c.err THEN [v |-> out, trace |-> c.trace, err |-> TRUE]
         ELSE convert_each(f, path, vs, k + 1, Append(out, c.v), c.trace)

\* the action of a scalar column as it would be if a NULLABLE column were
\* treated like a REQUIRED one
scalar_action_always_sets(f, path, d, v, trace) ==
    IF f.mode = "REPEATED"
    THEN IF v # VNone
         THEN LET c == convert_each(f, path, v.items, 1, <<>>, trace) IN
              [d |-> IF c.err THEN d ELSE VList(d.items \o c.v), trace |-> c.trace,
               err |-> c.err]
         ELSE [d |-> d, trace |-> trace, err |-> FALSE]
    ELSE LET c == Converted(f, path, v, trace) IN
         [d |-> IF c.err THEN d ELSE c.v, trace |-> c.trace, err |-> c.err]

\* the action of a scalar column f on its field d of the message; v is
\* src.get(name)
scalar_action(f, path, d, v, trace) ==
    IF f.mode = "NULLABLE"
    THEN IF v # VNone
         THEN LET c == Converted(f, path, v, trace) IN
              [d |-> IF c.err THEN d ELSE c.v, trace |-> c.trace, err |-> c.err]
         ELSE [d |-> d, trace |-> trace, err |-> FALSE]
    ELSE IF f.mode = "REPEATED"
    THEN IF v # VNone
         THEN LET c == convert_each(f, path, v.items, 1, <<>>, trace) IN
              [d |-> IF c.err THEN d ELSE VList(d.items \o c.v), trace |-> c.trace,
               err |-> c.err]
         ELSE [d |-> d, trace |-> trace, err |-> FALSE]
    ELSE LET c == Converted(f, path, v, trace) IN
         [d |-> IF c.err THEN d ELSE c.v, trace |-> c.trace, err |-> c.err]

\* the filler build_struct_filler(fields) returns, with the actions
\* fields[i..] still to run: dst is the message, src the source record
RECURSIVE build_struct_filler(_, _, _, _, _, _), record_action(_, _, _, _, _),
          fill_each(_, _, _, _, _, _)
build_struct_filler(fields, path, dst, src, i, trace) ==
    IF i > Len(fields) THEN [dst |-> dst, trace |-> trace, err |-> FALSE]
    ELSE IF src.kind # "dict" THEN [dst |-> dst, trace |-> trace, err |-> TRUE]
    ELSE LET f == fields[i]
             v == src.items[i]
             r == IF IsRecord(f) THEN record_action(f, path, dst[i], v, trace)
                  ELSE scalar_action(f, path, dst[i], v, trace)
             dst1 == [dst EXCEPT ![i] = r.d]
         IN IF r.err THEN [dst |-> dst1, trace |-> r.trace, err |-> TRUE]
            ELSE build_struct_filler(fields, path, dst1, src, i + 1, r.trace)

\* the action of a record column f: a is the filler of its columns
record_action(f, path, d, v, trace) ==
    LET sub == path \o "." \o f.name
        a(dd, s, tr) ==
            build_struct_filler(f.fields, sub, IF dd = VUnset THEN NewMessage(f.fields)
                                               ELSE dd.items, s, 1, tr)
    IN IF f.mode = "NULLABLE"
       THEN IF v # VNone
            THEN LET r == a(d, v, trace) IN
                 [d |-> VMsg(r.dst), trace |-> r.trace, err |-> r.err]
            ELSE [d |-> d, trace |-> trace, err |-> FALSE]
       ELSE IF f.mode = "REPEATED"
       THEN IF v # VNone
            THEN fill_each(f, sub, d, v.items, 1, trace)
            ELSE [d |-> d, trace |-> trace, err |-> FALSE]
       ELSE LET r == a(d, v, trace) IN
            [d |-> VMsg(r.dst), trace |-> r.trace, err |-> r.err]

\* [a(d.add(), i) for i in v]
fill_each(f, sub, d, vs, k, trace) ==
    IF k > Len(vs) THEN [d |-> d, trace |-> trace, err |-> FALSE]
    ELSE LET r == build_struct_filler(f.fields, sub, NewMessage(f.fields), vs[k], 1, trace)
             d1 == VList(Append(d.items, VMsg(r.dst)))
         IN IF r.err THEN [d |-> d1, trace |-> r.trace, err |-> TRUE]
            ELSE fill_each(f, sub, d1, vs, k + 1, r.trace)

\* dst = self.clazz(); self.actions(dst, src)
Fill(fields, src) == build_struct_filler(fields, "", NewMessage(fields), src, 1, <<>>)

\* nothing filled yet
NotFilled == [dst |-> <<>>, trace |-> <<>>, err |-> TRUE]

\* the source records of a schema: a value or None for every column
Scalars == {VInt(7), VStr("x")}
ListsOf(S) == UNION {{VList(s) : s \in [1..k -> S]} : k \in Lengths}
RECURSIVE Dicts(_), Items(_, _)
Dicts(fields) == {VDict(items) : items \in Items(fields, 1)}
Items(fields, i) ==
    IF i > Len(fields) THEN {<<>>}
    ELSE LET f == fields[i]
             one == IF IsRecord(f) THEN Dicts(f.fields) ELSE Scalars
             vals == {VNone} \cup (IF f.mode = "REPEATED" THEN ListsOf(one) ELSE one)
         IN {<<v>> \o rest : v \in vals, rest \in Items(fields, i + 1)}

\* the writer does not look at the schema here: its rows come serialized
PIdle == schema = <<>> /\ desc = NoDesc /\ record = VNone /\ filled = NotFilled

Init == WInit /\ PIdle /\ CBuilt

Spec == Init /\ [][Next]_vars

\* any schema, not compiled yet
DescInit ==
    /\ WInit
    /\ schema \in Schemas(MaxNodes)
    /\ desc = NoDesc
    /\ record = VNone
    /\ filled = NotFilled
    /\ CBuilt

\* BQBatchWriter.update_schema: self.descriptor = build_desriptor_proto(schema)
BuildDescriptor ==
    /\ desc = NoDesc
    /\ desc' = build_desriptor_proto(schema, "Row")
    /\ desc' # NoDesc
    /\ UNCHANGED <<schema, record, filled, wvars, cvars>>

DescNext == BuildDescriptor

SpecDesc == DescInit /\ [][DescNext]_vars

\* any schema and any source record of it, not filled yet
FillInit ==
    /\ WInit
    /\ schema \in Schemas(MaxFillNodes)
    /\ desc = NoDesc
    /\ record \in Dicts(schema)
    /\ filled = NotFilled
    /\ CBuilt

\* the first two lines of the loop of BQBatchWriterStream.append
FillRow ==
    /\ filled = NotFilled
    /\ filled' = Fill(schema, record)
    /\ UNCHANGED <<schema, desc, record, wvars, cvars>>

FillNext == FillRow

SpecFill == FillInit /\ [][FillNext]_vars

\* any arguments, the constructor not called yet
CtorInit ==
    /\ WInit
    /\ PIdle
    /\ args \in CtorArgs
    /\ built = NotBuilt

\* BQBatchWriter(table_id, write_stream=, bqc=, wc=)
Construct ==
    /\ built = NotBuilt
    /\ \E auth_ok \in BOOLEAN, create_ok \in BOOLEAN, table_ok \in BOOLEAN :
          built' = BQBatchWriter_init(args, auth_ok, create_ok, table_ok)
    /\ UNCHANGED <<args, wvars, pvars>>

CtorNext == Construct

SpecCtor == CtorInit /\ [][CtorNext]_vars

(***************************************************************************)
(* What the claims are stated with.                                        *)
(***************************************************************************)
\* the requests a step added to the record
NewCalls == SubSeq(calls', Len(calls) + 1, Len(calls'))

RECURSIVE SumSizes(_)
SumSizes(rows) == IF rows = <<>> THEN 0 ELSE Head(rows).size + SumSizes(Tail(rows))

\* the steps of one operation
IsStep(op) == ncalls' = ncalls + 1 /\ last'.op = op

\* positions of the record holding an event of kind ev
Events(log, ev) == {i \in 1..Len(log) : log[i].ev = ev}

\* rows handle h sent in the requests log[1..i-1]
RECURSIVE RowsSent(_, _, _)
RowsSent(log, h, i) ==
    IF i <= 1 THEN 0
    ELSE RowsSent(log, h, i - 1)
         + (IF log[i - 1].ev = "send" /\ log[i - 1].h \in h
            THEN Len(log[i - 1].rows) ELSE 0)

\* the offset handle h was opened with
OpenOffset(h) ==
    LET i == CHOOSE i \in Events(calls, "open") : calls[i].h = h IN calls[i].offset

(***************************************************************************)
(* C1: during append a request is sent exactly at the rows after which the *)
(* buffered byte count exceeds 9,000,000: every request an append sends    *)
(* holds more than the threshold, held no more than the threshold before   *)
(* its last row (a row of this call) was added, and that row is in it;     *)
(* and append never returns with more than the threshold left buffered,    *)
(* the count being the size of the buffered rows.                          *)
(***************************************************************************)
FlushExactlyAboveThreshold ==
    [][IsStep("append") =>
         LET h == last'.h IN
         /\ \A j \in 1..Len(NewCalls) :
              LET rq == NewCalls[j].rows IN
              /\ NewCalls[j].ev = "send"
              /\ NewCalls[j].h = h
              /\ SumSizes(rq) > Threshold
              /\ SumSizes(SubSeq(rq, 1, Len(rq) - 1)) <= Threshold
              /\ rq[Len(rq)].id > nrows
         /\ handles'[h].size <= Threshold
         /\ handles'[h].size = SumSizes(handles'[h].rows)
         /\ handles[h].size = SumSizes(handles[h].rows)]_vars

\* an append sent a request of two rows: the first stayed buffered below the
\* threshold and the second, larger than the threshold alone, went out with it
FlushedAfterCrossing ==
    /\ last.op = "append"
    /\ \E i \in Events(calls, "send") :
         /\ Len(calls[i].rows) = 2
         /\ calls[i].rows[1].size <= Threshold
         /\ calls[i].rows[2].size > Threshold
         /\ handles[calls[i].h].rows = <<>>

(***************************************************************************)
(* C2 as claimed: every request's offset is the number of rows sent in     *)
(* earlier requests on the write stream, whichever handle sent them (base  *)
(* being the rows the stream held before this writer was built).           *)
(***************************************************************************)
OffsetIsRowsSentOnStream ==
    \E base \in OpenOffsets :
        \A i \in Events(calls, "send") :
            calls[i].offset = base + RowsSent(calls, HandleIds, i)

(***************************************************************************)
(* C2 amended: every request's offset is the offset its handle was opened  *)
(* with plus the number of rows that handle sent in earlier requests, and  *)
(* the handle's offset has advanced by the rows of every request it sent.  *)
(***************************************************************************)
OffsetIsOpenOffsetPlusRowsSent ==
    /\ \A i \in Events(calls, "send") :
         calls[i].offset = OpenOffset(calls[i].h) + RowsSent(calls, {calls[i].h}, i)
    /\ \A h \in 1..Len(handles) :
         handles[h].offset = OpenOffset(h) + RowsSent(calls, {h}, Len(calls) + 1)

\* a handle opened at offset 1 sent a second request
SecondRequestOnOffsetHandle ==
    \E i, j \in Events(calls, "send") :
        /\ i < j
        /\ calls[i].h = calls[j].h
        /\ OpenOffset(calls[i].h) = 1

(***************************************************************************)
(* C3: a commit request is only ever issued right after a finalize request *)
(* that succeeded: finalize comes first, and a failed finalize is followed *)
(* by no commit.                                                           *)
(***************************************************************************)
FinalizeBeforeCommit ==
    /\ \A i \in Events(calls, "commit") :
         i > 1 /\ calls[i - 1].ev = "finalize" /\ calls[i - 1].ok
    /\ \A i \in Events(calls, "finalize") :
         ~calls[i].ok => (i = Len(calls) \/ calls[i + 1].ev # "commit")

\* finalize failed in the commit that was just called
FinalizeFailed ==
    /\ last.op = "commit"
    /\ last.err = "finalize"
    /\ calls[Len(calls)].ev = "finalize"
    /\ ~calls[Len(calls)].ok

(***************************************************************************)
(* The requests of one commit.                                             *)
(***************************************************************************)
IsResult(e) == e.ev = "result"

\* the futures the step awaited, in the order it awaited them
Awaited == LET res == SelectSeq(NewCalls, IsResult) IN [i \in 1..Len(res) |-> res[i].fid]

\* where the step issued finalize or commit, and where a result() raised
Completions == {i \in 1..Len(NewCalls) : NewCalls[i].ev \in {"finalize", "commit"}}
Failures == {i \in 1..Len(NewCalls) : NewCalls[i].ev = "result" /\ ~NewCalls[i].ok}

\* the futures of the handles ss[i..], handle by handle
RECURSIVE FuturesOf(_, _, _)
FuturesOf(ss, hs, i) ==
    IF i > Len(ss) THEN <<>> ELSE hs[ss[i]].futures \o FuturesOf(ss, hs, i + 1)

\* a commit that has handles to close
ClosingCommit == IsStep("commit") /\ Len(streams) > 0

(***************************************************************************)
(* C4 as claimed: a commit awaits the retained futures of every handle     *)
(* opened on the writer in the order their requests were sent, all of them *)
(* before finalize or commit is issued; a failure is raised to the caller  *)
(* and then neither finalize nor commit is issued.                         *)
(***************************************************************************)
CommitAwaitsInSendOrder ==
    [][ClosingCommit =>
         /\ \A i, j \in 1..Len(Awaited) : i < j => Awaited[i] < Awaited[j]
         /\ Completions # {} =>
              \A h \in 1..Len(handles') : \A k \in 1..Len(handles'[h].futures) :
                 \E i \in 1..Len(NewCalls) :
                    /\ NewCalls[i].ev = "result"
                    /\ NewCalls[i].fid = handles'[h].futures[k]
                    /\ \A j \in Completions : i < j
         /\ Failures # {} =>
              /\ Completions = {}
              /\ last'.err = "send"
              /\ \A i \in Failures : last'.fid = NewCalls[i].fid]_vars

(***************************************************************************)
(* C4 amended: a commit awaits the retained futures of the handles in the  *)
(* writer's list (those opened since the list was last cleared), handle by *)
(* handle in open order and each handle's futures in the order they were   *)
(* sent, all of them before finalize or commit is issued; the first        *)
(* result that fails in that order ends the awaiting, is raised to the     *)
(* caller, and neither finalize nor commit is issued.                      *)
(***************************************************************************)
CommitAwaitsHandleByHandle ==
    [][ClosingCommit =>
         LET expected == FuturesOf(streams, handles', 1) IN
         /\ Len(Awaited) <= Len(expected)
         /\ Awaited = SubSeq(expected, 1, Len(Awaited))
         /\ Completions # {} =>
              /\ Awaited = expected
              /\ \A i \in 1..Len(NewCalls) :
                    NewCalls[i].ev = "result" => \A j \in Completions : i < j
         /\ Failures # {} =>
              /\ Completions = {}
              /\ Failures = {Len(NewCalls)}
              /\ last'.err = "send"
              /\ last'.fid = NewCalls[Len(NewCalls)].fid
         /\ Failures = {} => last'.err # "send" /\ Completions # {}]_vars

\* a commit closed two handles, awaited a future of each, and went on to
\* finalize
CommitAwaitedTwoHandles ==
    /\ last.op = "commit"
    /\ Events(calls, "finalize") # {}
    /\ \E i, j \in Events(calls, "result") :
          i < j /\ calls[i].h = 1 /\ calls[j].h = 2 /\ calls[i].fid > calls[j].fid

(***************************************************************************)
(* C5: closing is idempotent: finalize and commit are each issued at most  *)
(* once for the write stream, and a commit after one that finalized, or a  *)
(* close of a handle whose transport was closed, sends nothing, issues no  *)
(* finalize or commit, closes no transport and raises no error.            *)
(***************************************************************************)
CloseIsIdempotent ==
    [][/\ Cardinality(Events(calls', "finalize")) <= 1
       /\ Cardinality(Events(calls', "commit")) <= 1
       /\ (IsStep("commit") /\ Events(calls, "finalize") # {}) =>
             calls' = calls /\ last'.err = "none"
       /\ (IsStep("close") /\ \E i \in Events(calls, "close") : calls[i].h = last'.h) =>
             calls' = calls /\ last'.err = "none"]_vars

(***************************************************************************)
(* C6 as claimed: open, appends of rows that together are not above the    *)
(* threshold, commit: a commit that completes has sent exactly one request *)
(* holding all the rows in the order given, one finalize and one commit    *)
(* naming the writer's write stream.                                       *)
(***************************************************************************)
\* one handle was opened and nothing was sent, awaited or closed so far:
\* every row appended is still buffered
OnlyAppended ==
    /\ Len(handles) = 1
    /\ streams = <<1>>
    /\ Len(calls) = 1
    /\ SumSizes(handles[1].rows) <= Threshold

\* the new requests are n requests holding (n = 1) the rows appended, then
\* one finalize and one commit of the write stream
EndToEnd(n) ==
    LET sends == {i \in 1..Len(NewCalls) : NewCalls[i].ev = "send"} IN
    /\ Cardinality(sends) = n
    /\ \A i \in sends :
          /\ Len(NewCalls[i].rows) = nrows
          /\ \A k \in 1..nrows : NewCalls[i].rows[k].id = k
          /\ NewCalls[i].ws = WriteStream
          /\ \A j \in Completions : i < j
    /\ Cardinality(Completions) = 2
    /\ \A j \in Completions :
          /\ NewCalls[j].ws = WriteStream
          /\ NewCalls[j].ev = (IF j = Len(NewCalls) THEN "commit" ELSE "finalize")

EndToEndOneRequest ==
    [][(IsStep("commit") /\ OnlyAppended /\ last'.err = "none") => EndToEnd(1)]_vars

(***************************************************************************)
(* C6 amended: the same when at least one row was appended; with no row    *)
(* appended the commit sends no request and still issues one finalize and  *)
(* one commit naming the writer's write stream.                            *)
(***************************************************************************)
EndToEndOneRequestIfAnyRow ==
    [][(IsStep("commit") /\ OnlyAppended /\ last'.err = "none") =>
          EndToEnd(IF nrows > 0 THEN 1 ELSE 0)]_vars

\* two rows went out in one request, followed by its result, the close of
\* the transport, finalize and commit
TwoRowsCommitted ==
    /\ last.op = "commit"
    /\ last.err = "none"
    /\ Len(calls) = 6
    /\ calls[2].ev = "send"
    /\ Len(calls[2].rows) = 2
    /\ SumSizes(calls[2].rows) = Threshold
    /\ calls[6].ev = "commit"

(***************************************************************************)
(* C7: a failed send is not retried (no row goes out in two requests), and *)
(* when a close raises the failure of a future, every future the handle    *)
(* retains has been awaited.                                               *)
(***************************************************************************)
FailedCloseDrainsFutures ==
    /\ \A i, j \in Events(calls, "send") :
          i # j => \A k \in 1..Len(calls[i].rows), l \in 1..Len(calls[j].rows) :
                      calls[i].rows[k].id # calls[j].rows[l].id
    /\ (last.op \in {"close", "commit"} /\ last.err = "send") =>
          \A h \in 1..Len(handles) :
             (\E k \in 1..Len(handles[h].futures) : handles[h].futures[k] = last.fid) =>
                \A k \in 1..Len(handles[h].futures) :
                   \E i \in Events(calls, "result") : calls[i].fid = handles[h].futures[k]

(***************************************************************************)
(* C8: an append or a submit on a handle whose close has closed the        *)
(* transport buffers no row and sends no request.                          *)
(***************************************************************************)
NoAppendSubmitAfterClose ==
    [][((IsStep("append") \/ IsStep("submit"))
         /\ \E i \in Events(calls, "close") : calls[i].h = last'.h) =>
            /\ handles'[last'.h].rows = handles[last'.h].rows
            /\ calls' = calls]_vars

(***************************************************************************)
(* C9: at every nesting level the descriptor has one field per column, in  *)
(* input order, numbered 1..N; the nested type of a record column numbers  *)
(* its own columns from 1 again, whatever the columns before it hold.      *)
(***************************************************************************)
RECURSIVE NumberedInOrder(_, _)
NumberedInOrder(fields, d) ==
    LET records == SelectSeq(fields, IsRecord) IN
    /\ Len(d.field) = Len(fields)
    /\ \A i \in 1..Len(fields) :
          d.field[i].number = i /\ d.field[i].name = fields[i].name
    /\ Len(d.nested_type) = Len(records)
    /\ \A k \in 1..Len(records) : NumberedInOrder(records[k].fields, d.nested_type[k])

FieldNumbersPerLevel ==
    desc # NoDesc => NumberedInOrder(schema, desc)

\* a record column with a column of its own, followed by a second column
NestedThenSibling ==
    /\ desc # NoDesc
    /\ Len(schema) = 2
    /\ Len(schema[1].fields) = 1
    /\ desc.field[2].number = 2
    /\ desc.nested_type[1].field[1].number = 1

(***************************************************************************)
(* C10: for a NULLABLE scalar column, a source record without a value for  *)
(* it leaves the field unset and does not call the converter; a record     *)
(* with a value sets the field to what the converter of the column's type  *)
(* makes of that value; and the other fields of the message are the same   *)
(* with and without the value.  (A filler that raises fills no row.)       *)
(***************************************************************************)
NullableScalar(i) == schema[i].mode = "NULLABLE" /\ ~IsRecord(schema[i])

NullableScalarRule ==
    filled # NotFilled =>
       \A i \in 1..Len(schema) : NullableScalar(i) =>
          LET v == record.items[i]
              name == "." \o schema[i].name
              without == Fill(schema, VDict([record.items EXCEPT ![i] = VNone]))
          IN /\ v = VNone =>
                  /\ \A k \in 1..Len(filled.trace) : filled.trace[k].path # name
                  /\ ~filled.err => filled.dst[i] = VUnset
             /\ v # VNone =>
                  /\ ~filled.err =>
                        /\ Convert(schema[i].field_type, v).ok
                        /\ filled.dst[i] = Convert(schema[i].field_type, v).v
                        /\ \E k \in 1..Len(filled.trace) :
                              filled.trace[k] = [path |-> name, v |-> v]
                  /\ ~Convert(schema[i].field_type, v).ok => filled.err
             /\ (~filled.err /\ ~without.err) =>
                  /\ without.dst[i] = VUnset
                  /\ \A j \in 1..Len(schema) : j # i => filled.dst[j] = without.dst[j]

\* two NULLABLE scalar columns: the first has no value and stays unset, the
\* second, a STRING, is given the int 7 and holds "7"
OneAbsentOneConverted ==
    /\ filled # NotFilled
    /\ ~filled.err
    /\ Len(schema) = 2
    /\ NullableScalar(1)
    /\ NullableScalar(2)
    /\ schema[2].field_type = "STRING"
    /\ record.items = <<VNone, VInt(7)>>
    /\ filled.dst = <<VUnset, VStr("7")>>

(***************************************************************************)
(* C11: in a row that was filled, at every nesting level: a REPEATED       *)
(* column without a source value has no entries; a REPEATED scalar column  *)
(* whose source value has N elements has N entries, the k-th being what    *)
(* the converter makes of the k-th element; a REPEATED record column whose *)
(* source value has N elements has N sub-messages, the k-th being what the *)
(* nested filler makes of a new message and the k-th element alone.        *)
(***************************************************************************)
RECURSIVE RepeatedRule(_, _, _)
RepeatedRule(fields, src, dst) ==
    \A i \in 1..Len(fields) :
       LET f == fields[i]
           v == src.items[i]
           d == dst[i]
       IN IF f.mode = "REPEATED"
          THEN /\ d.kind = "list"
               /\ v = VNone => d.items = <<>>
               /\ v # VNone =>
                    /\ Len(d.items) = Len(v.items)
                    /\ \A k \in 1..Len(v.items) :
                          IF IsRecord(f)
                          THEN /\ d.items[k] = VMsg(Fill(f.fields, v.items[k]).dst)
                               /\ RepeatedRule(f.fields, v.items[k], d.items[k].items)
                          ELSE d.items[k] = Convert(f.field_type, v.items[k]).v
          ELSE (IsRecord(f) /\ v # VNone) => RepeatedRule(f.fields, v, d.items)

RepeatedFieldsRule ==
    (filled # NotFilled /\ ~filled.err) => RepeatedRule(schema, record, filled.dst)

\* a REPEATED record column with a REPEATED STRING column, given two
\* elements: the first holds the list [7, "x"], the second no value
TwoSubMessagesInOrder ==
    /\ filled # NotFilled
    /\ ~filled.err
    /\ Len(schema) = 1
    /\ IsRecord(schema[1])
    /\ schema[1].mode = "REPEATED"
    /\ Len(schema[1].fields) = 1
    /\ schema[1].fields[1].mode = "REPEATED"
    /\ schema[1].fields[1].field_type = "STRING"
    /\ record.items = <<VList(<<VDict(<<VList(<<VInt(7), VStr("x")>>)>>), VDict(<<VNone>>)>>)>>
    /\ filled.dst = <<VList(<<VMsg(<<VList(<<VStr("7"), VStr("x")>>)>>),
                              VMsg(<<VList(<<>>)>>)>>)>>

(***************************************************************************)
(* C12: constructing a writer with a table identifier that does not split  *)
(* into exactly three parts at the dots raises the validation error, and   *)
(* no collaborator was called before it: no credentials acquired, no       *)
(* client created, no write stream created, no table fetched.              *)
(***************************************************************************)
MalformedIdRejectedFirst ==
    (built # NotBuilt /\ Len(split(args.table_id, ".")) # 3) =>
        built.err = "ValueError" /\ built.log = <<>>

(***************************************************************************)
(* The rows of one handle.                                                 *)
(***************************************************************************)
\* the rows handle h sent in the requests log[1..i], in send order
RECURSIVE SentRows(_, _, _)
SentRows(log, h, i) ==
    IF i = 0 THEN <<>>
    ELSE SentRows(log, h, i - 1)
         \o (IF log[i].ev = "send" /\ log[i].h = h THEN log[i].rows ELSE <<>>)

\* the requests handle h sent
SendsOf(log, h) == {i \in Events(log, "send") : log[i].h = h}

(***************************************************************************)
(* C13: an append that raises what a row's conversion raised leaves of     *)
(* that row nothing: the rows the handle sent and holds are those it had   *)
(* before followed by the rows of this call before the failing one; the    *)
(* byte count is the size of the buffered rows, the offset the open offset *)
(* plus the rows sent, the futures one per request sent; and at no time,   *)
(* the commit of __exit__ included, does a request hold a row that is not  *)
(* one of the rows the appends took.                                       *)
(***************************************************************************)
FailedRowLeavesNothing ==
    [][/\ (IsStep("append") /\ last'.err = "convert") =>
            LET h == last'.h
                before == SentRows(calls, h, Len(calls)) \o handles[h].rows
                after == SentRows(calls', h, Len(calls')) \o handles'[h].rows
                taken == nrows' - nrows
            IN /\ Len(after) = Len(before) + taken
               /\ SubSeq(after, 1, Len(before)) = before
               /\ \A k \in 1..taken : after[Len(before) + k].id = nrows + k
               /\ handles'[h].size = SumSizes(handles'[h].rows)
               /\ handles'[h].offset = OpenOffset(h) + RowsSent(calls', {h}, Len(calls') + 1)
               /\ Len(handles'[h].futures) = Cardinality(SendsOf(calls', h))
       /\ \A i \in Events(calls', "send") : \A k \in 1..Len(calls'[i].rows) :
             \E j \in 1..Len(given'[calls'[i].h].rows) :
                given'[calls'[i].h].rows[j] = calls'[i].rows[k]]_vars

\* append(row, bad_row) raised, __exit__ ran commit: the one request holds
\* the one row, and finalize and commit followed
ExitSentTheRowBefore ==
    /\ last.op = "exit"
    /\ last.err = "none"
    /\ Len(handles) = 1
    /\ Len(given[1].rows) = 1
    /\ given[1].returned = 0
    /\ \E i \in Events(calls, "send") : calls[i].rows = given[1].rows
    /\ Cardinality(Events(calls, "send")) = 1
    /\ calls[Len(calls)].ev = "commit"

(***************************************************************************)
(* C14: on every handle the rows of the requests it sent, in send order,   *)
(* followed by the rows it still holds, are the rows its appends took, in  *)
(* append order; no request is empty; a close that returns has left no row *)
(* in the buffer, and if every row the handle took was taken by an append  *)
(* that returned, it returns the sum of the values the appends returned.   *)
(***************************************************************************)
RowsConserved ==
    /\ \A h \in 1..Len(handles) :
          SentRows(calls, h, Len(calls)) \o handles[h].rows = given[h].rows
    /\ \A i \in Events(calls, "send") : calls[i].rows # <<>>
    /\ (last.op = "close" /\ last.err = "none") =>
          /\ handles[last.h].rows = <<>>
          /\ SentRows(calls, last.h, Len(calls)) = given[last.h].rows
          /\ given[last.h].returned = SumSizes(given[last.h].rows) =>
                last.ret = given[last.h].returned

\* a handle sent one request from an append and one from close, which
\* returned the bytes of both rows
ClosedAfterTwoRequests ==
    /\ last.op = "close"
    /\ last.err = "none"
    /\ Cardinality(SendsOf(calls, last.h)) = 2
    /\ Len(given[last.h].rows) = 2
    /\ last.ret = given[last.h].returned
    /\ last.ret = SumSizes(given[last.h].rows)
    /\ last.ret > Threshold

====
